---- MODULE Spec2Model ----
(***************************************************************************)
(* PostMessageService (the message router with its responder and callback *)
(* registries), the useWebviewToPluginMessages hook that feeds it, and the *)
(* webviewApi bridge of UserWebviewIndex.js that turns replies back into   *)
(* promises.                                                               *)
(***************************************************************************)
EXTENDS Integers, Sequences, FiniteSets, TLC

\* Number of messages posted to the service directly (specification Spec).
MaxMessages == 1

\* Number of webviewApi.postMessage calls (specification SpecWebview).
MaxCalls == 2

\* Number of webviewApi.postMessage calls followed to their end under the
\* scheduling of the event loop (specification SpecWebviewFair).
MaxRoundTrips == 1

VARIABLES
    responders_,          \* PostMessageService.responders_ : composite key -> function
    callbacks_,           \* PostMessageService.callbacks_  : composite key -> function
    awaiting,             \* postMessage invocations suspended at their await
    webviewApiPromises_,  \* per webview: message id -> promise of webviewApi.postMessage
    toHost,               \* per webview: window messages on their way to onMessage_
    toGuest,              \* per webview: 'postMessageService.response' events on their way to ipc
    nextId,               \* the next fresh message id
    issuedWith,           \* per awaited bridge call: the webview's responder when the call was
                          \* forwarded, and whether it was unregistered since
    installed,            \* <<type, viewId>> -> the function last registered and not unregistered since
    mounted,              \* per webview: the hook instances mounted, each named by its function
    last                  \* what the most recent operation did (calls made, outcome)

vars == <<responders_, callbacks_, awaiting, webviewApiPromises_, toHost, toGuest,
          nextId, issuedWith, installed, mounted, last>>

----------------------------------------------------------------------------
\* Values

MessageParticipant ==
    [ContentScript |-> "contentScript", Plugin |-> "plugin", UserWebview |-> "userWebview"]

ResponderComponentType ==
    [NoteTextViewer |-> "noteTextViewer", UserWebview |-> "userWebview"]

Participants ==
    {MessageParticipant.ContentScript, MessageParticipant.Plugin, MessageParticipant.UserWebview}

SurfaceTypes ==
    {ResponderComponentType.NoteTextViewer, ResponderComponentType.UserWebview}

ViewIds == {"v1", "v2"}

\* The views whose messages are posted; the other view only holds
\* registrations (the two are interchangeable).
PostedViewIds == {"v1"}

\* JavaScript values, tagged so that values of different kinds compare unequal.
Null == [t |-> "null"]
Undefined == [t |-> "undefined"]
Fn(name) == [t |-> "function", name |-> name]
Val(v) == [t |-> "value", v |-> v]
Err(name) == [t |-> "error", name |-> name, of |-> 0]
Obj(message) == [t |-> "message", m |-> message]

Falsy(x) == x.t \in {"null", "undefined"}

Functions == {Fn("f1"), Fn("f2")}

\* The functions registered for a view: any for a view whose messages are
\* posted, one for the other view.
FunctionsFor(viewId) == IF viewId \in PostedViewIds THEN Functions ELSE {Fn("f2")}

\* What the extension handler of call id can resolve with (nothing, or a result
\* object of its own), and what it can reject with (an error object of its own).
HandlerResults(id) == {Null, Val(id)}
HandlerErrors(id) == {[t |-> "error", name |-> "HandlerError", of |-> id]}

\* The key made of the view id alone.
JoinKey_viewIdOnly(type, viewId) == viewId

\* [type, viewId].join(':')
JoinKey(type, viewId) == type \o ":" \o viewId

\* obj[key] of a JavaScript object used as a map
Get(obj, key) == IF key \in DOMAIN obj THEN obj[key] ELSE Undefined

\* obj[key] = value
Put(obj, key, value) == [k \in (DOMAIN obj) \cup {key} |-> IF k = key THEN value ELSE obj[k]]

\* delete obj[key]
Delete(obj, key) == [k \in (DOMAIN obj) \ {key} |-> obj[k]]

Message(pluginId, contentScriptId, viewId, from, to, id, content) ==
    [pluginId |-> pluginId, contentScriptId |-> contentScriptId, viewId |-> viewId,
     from |-> from, to |-> to, id |-> id, content |-> content]

MessageResponse(responseId, response, error) ==
    [responseId |-> responseId, response |-> response, error |-> error]

NoMessage == Message("", "", "", "", "", 0, "")

\* What the collaborators answer during one postMessage call:
\*   owner    : PluginService.pluginIdByContentScriptId(contentScriptId), "" when none
\*   resolves : pluginById(pluginId).viewController(viewId) finds the controller
\*   cbThrows : the registered callback throws
Environments == [owner : {"", "ext1"}, resolves : BOOLEAN, cbThrows : BOOLEAN]

NoEnvironment == [owner |-> "ext1", resolves |-> TRUE, cbThrows |-> FALSE]

\* The record of an operation that called nothing and settled nothing.
\*   op             : the operation
\*   message, env   : the message of a postMessage call and its collaborators' answers
\*   issued         : issuedWith of the call, when it resumes
\*   handler        : the extension handler the call invoked
\*   settled        : what the awaited handler settled with (Undefined: nothing awaited)
\*   callbackCalls  : the callback invocations of this operation
\*   sent           : the arguments of its sendResponse calls
\*   responderCalls : the responder invocations of this operation
\*   warn           : it logged a warning
\*   outcome, reason: "pending" (suspended), "fulfilled", or "rejected" with reason
\*   reg            : the arguments of a registry operation (Undefined: none)
Quiet(op) ==
    [op |-> op, message |-> NoMessage, env |-> NoEnvironment, issued |-> Undefined,
     handler |-> "none", settled |-> Undefined, callbackCalls |-> <<>>,
     sent |-> <<>>, responderCalls |-> <<>>, warn |-> FALSE,
     outcome |-> "none", reason |-> Null, reg |-> Undefined]

\* The record of a registry operation on (type, viewId): fn is the function it was
\* given (Undefined for an unregistration), before what the slot held.
Registry(op, type, viewId, fn, before) ==
    [Quiet(op) EXCEPT !.reg = [t |-> "reg", type |-> type, viewId |-> viewId,
                               fn |-> fn, before |-> before]]

----------------------------------------------------------------------------
\* PostMessageService

\* private responder(type, viewId)
responder(type, viewId) == Get(responders_, JoinKey(type, viewId))

\* sendResponse returning after its warning.
sendResponse_returnsAfterWarn(message, responseContent, error) ==
    LET type == IF message.from = MessageParticipant.ContentScript
                    THEN ResponderComponentType.NoteTextViewer
                    ELSE ResponderComponentType.UserWebview
        found == IF message.from = MessageParticipant.ContentScript
                    THEN responder(ResponderComponentType.NoteTextViewer, message.viewId)
                 ELSE IF message.from = MessageParticipant.UserWebview
                    THEN responder(ResponderComponentType.UserWebview, message.viewId)
                 ELSE Null
    IN  IF Falsy(found)
            THEN [invoked |-> <<>>, warn |-> TRUE, thrown |-> Null]
            ELSE [invoked |-> <<[key |-> JoinKey(type, message.viewId), fn |-> found,
                                 reply |-> MessageResponse(message.id, responseContent, error)]>>,
                  warn |-> FALSE, thrown |-> Null]

\* sendResponse with the two component types exchanged.
sendResponse_swapsTypes(message, responseContent, error) ==
    LET type == IF message.from = MessageParticipant.ContentScript
                    THEN ResponderComponentType.UserWebview
                    ELSE ResponderComponentType.NoteTextViewer
        found == IF message.from = MessageParticipant.ContentScript
                    THEN responder(ResponderComponentType.UserWebview, message.viewId)
                 ELSE IF message.from = MessageParticipant.UserWebview
                    THEN responder(ResponderComponentType.NoteTextViewer, message.viewId)
                 ELSE Null
    IN  IF Falsy(found)
            THEN [invoked |-> <<>>, warn |-> TRUE, thrown |-> Err("TypeError")]
            ELSE [invoked |-> <<[key |-> JoinKey(type, message.viewId), fn |-> found,
                                 reply |-> MessageResponse(message.id, responseContent, error)]>>,
                  warn |-> FALSE, thrown |-> Null]

\* sendResponse taking the UserWebview responder for every sender but a content script.
sendResponse_defaultsToUserWebview(message, responseContent, error) ==
    LET type == IF message.from = MessageParticipant.ContentScript
                    THEN ResponderComponentType.NoteTextViewer
                    ELSE ResponderComponentType.UserWebview
        found == responder(type, message.viewId)
    IN  IF Falsy(found)
            THEN [invoked |-> <<>>, warn |-> TRUE, thrown |-> Err("TypeError")]
            ELSE [invoked |-> <<[key |-> JoinKey(type, message.viewId), fn |-> found,
                                 reply |-> MessageResponse(message.id, responseContent, error)]>>,
                  warn |-> FALSE, thrown |-> Null]

\* private sendResponse(message, responseContent, error): the responder calls it
\* makes, whether it warned, and what it threw (Null when it returned).
sendResponse(message, responseContent, error) ==
    LET type == IF message.from = MessageParticipant.ContentScript
                    THEN ResponderComponentType.NoteTextViewer
                    ELSE ResponderComponentType.UserWebview
        found == IF message.from = MessageParticipant.ContentScript
                    THEN responder(ResponderComponentType.NoteTextViewer, message.viewId)
                 ELSE IF message.from = MessageParticipant.UserWebview
                    THEN responder(ResponderComponentType.UserWebview, message.viewId)
                 ELSE Null
    IN  IF Falsy(found)
            \* logger.warn(...) does not return: calling null/undefined throws
            THEN [invoked |-> <<>>, warn |-> TRUE, thrown |-> Err("TypeError")]
            ELSE [invoked |-> <<[key |-> JoinKey(type, message.viewId), fn |-> found,
                                 reply |-> MessageResponse(message.id, responseContent, error)]>>,
                  warn |-> FALSE, thrown |-> Null]

\* callback looking its function up in responders_.
callback_fromResponders(message, responseContent, error, cbThrows) ==
    LET key == JoinKey(ResponderComponentType.UserWebview, message.viewId)
        found == Get(responders_, key)
    IN  IF Falsy(found)
            THEN [invoked |-> <<>>, thrown |-> Err("TypeError")]
            ELSE [invoked |-> <<[key |-> key, fn |-> found,
                                 reply |-> MessageResponse(message.id, responseContent, error)]>>,
                  thrown |-> IF cbThrows THEN Err("CallbackError") ELSE Null]

\* private callback(message, responseContent, error); cbThrows: the callback
\* function itself throws when called.
callback(message, responseContent, error, cbThrows) ==
    LET key == JoinKey(ResponderComponentType.UserWebview, message.viewId)
        found == Get(callbacks_, key)
    IN  IF Falsy(found)
            THEN [invoked |-> <<>>, thrown |-> Err("TypeError")]
            ELSE [invoked |-> <<[key |-> key, fn |-> found,
                                 reply |-> MessageResponse(message.id, responseContent, error)]>>,
                  thrown |-> IF cbThrows THEN Err("CallbackError") ELSE Null]

\* The try block without the check of the content script's owner.
TryBlock_noOwnerCheck(message, env) ==
    IF message.to = MessageParticipant.UserWebview /\ message.from = MessageParticipant.Plugin
    THEN LET c == callback(message, Obj(message), Null, env.cbThrows)
         IN  [exit |-> IF c.thrown = Null THEN "return" ELSE "catch",
              handler |-> "none", callbackCalls |-> c.invoked, error |-> c.thrown]
    ELSE IF message.from = MessageParticipant.ContentScript /\ message.to = MessageParticipant.Plugin
    THEN [exit |-> "await", handler |-> "emitContentScriptMessage",
          callbackCalls |-> <<>>, error |-> Null]
    ELSE IF message.from = MessageParticipant.UserWebview /\ message.to = MessageParticipant.Plugin
    THEN IF ~env.resolves
            THEN [exit |-> "catch", handler |-> "none", callbackCalls |-> <<>>,
                  error |-> Err("Could not resolve view")]
            ELSE [exit |-> "await", handler |-> "emitMessage",
                  callbackCalls |-> <<>>, error |-> Null]
    ELSE [exit |-> "catch", handler |-> "none", callbackCalls |-> <<>>,
          error |-> Err("Unhandled message")]

\* The try block returning on a pairing it does not handle.
TryBlock_ignoresUnhandled(message, env) ==
    IF message.to = MessageParticipant.UserWebview /\ message.from = MessageParticipant.Plugin
    THEN LET c == callback(message, Obj(message), Null, env.cbThrows)
         IN  [exit |-> IF c.thrown = Null THEN "return" ELSE "catch",
              handler |-> "none", callbackCalls |-> c.invoked, error |-> c.thrown]
    ELSE IF message.from = MessageParticipant.ContentScript /\ message.to = MessageParticipant.Plugin
    THEN IF env.owner = ""
            THEN [exit |-> "catch", handler |-> "none", callbackCalls |-> <<>>,
                  error |-> Err("Could not find plugin")]
            ELSE [exit |-> "await", handler |-> "emitContentScriptMessage",
                  callbackCalls |-> <<>>, error |-> Null]
    ELSE IF message.from = MessageParticipant.UserWebview /\ message.to = MessageParticipant.Plugin
    THEN IF ~env.resolves
            THEN [exit |-> "catch", handler |-> "none", callbackCalls |-> <<>>,
                  error |-> Err("Could not resolve view")]
            ELSE [exit |-> "await", handler |-> "emitMessage",
                  callbackCalls |-> <<>>, error |-> Null]
    ELSE [exit |-> "return", handler |-> "none", callbackCalls |-> <<>>, error |-> Null]

\* The try block of postMessage up to its first await.
\*   exit = "return" : the push path returned
\*   exit = "await"  : suspended on the handler named in handler
\*   exit = "catch"  : an exception was caught into error
TryBlock(message, env) ==
    IF message.to = MessageParticipant.UserWebview /\ message.from = MessageParticipant.Plugin
    THEN LET c == callback(message, Obj(message), Null, env.cbThrows)
         IN  [exit |-> IF c.thrown = Null THEN "return" ELSE "catch",
              handler |-> "none", callbackCalls |-> c.invoked, error |-> c.thrown]
    ELSE IF message.from = MessageParticipant.ContentScript /\ message.to = MessageParticipant.Plugin
    THEN IF env.owner = ""
            THEN [exit |-> "catch", handler |-> "none", callbackCalls |-> <<>>,
                  error |-> Err("Could not find plugin")]
            ELSE [exit |-> "await", handler |-> "emitContentScriptMessage",
                  callbackCalls |-> <<>>, error |-> Null]
    ELSE IF message.from = MessageParticipant.UserWebview /\ message.to = MessageParticipant.Plugin
    THEN IF ~env.resolves
            THEN [exit |-> "catch", handler |-> "none", callbackCalls |-> <<>>,
                  error |-> Err("Could not resolve view")]
            ELSE [exit |-> "await", handler |-> "emitMessage",
                  callbackCalls |-> <<>>, error |-> Null]
    ELSE [exit |-> "catch", handler |-> "none", callbackCalls |-> <<>>,
          error |-> Err("Unhandled message")]

\* The responder the hook registers: postMessage('postMessageService.response', { message })
ForwardToGuest(calls) ==
    [v \in ViewIds |->
        LET key == JoinKey(ResponderComponentType.UserWebview, v)
            mine == SelectSeq(calls, LAMBDA c : c.key = key)
        IN  toGuest[v] \o [i \in 1..Len(mine) |-> mine[i].reply]]

\* The end of postMessage calling sendResponse a second time.
Reply_sendsTwice(run, response, error) ==
    LET s == sendResponse(run.message, response, error)
    IN  /\ last' = [run EXCEPT
                    !.sent = <<MessageResponse(run.message.id, response, error),
                               MessageResponse(run.message.id, response, error)>>,
                    !.responderCalls = s.invoked \o s.invoked, !.warn = s.warn,
                    !.outcome = IF s.thrown = Null THEN "fulfilled" ELSE "rejected",
                    !.reason = s.thrown]
        /\ toGuest' = ForwardToGuest(s.invoked \o s.invoked)

\* The end of postMessage: this.sendResponse(message, response, error); run is the
\* record of the call so far.
Reply(run, response, error) ==
    LET s == sendResponse(run.message, response, error)
    IN  /\ last' = [run EXCEPT
                    !.sent = <<MessageResponse(run.message.id, response, error)>>,
                    !.responderCalls = s.invoked, !.warn = s.warn,
                    !.outcome = IF s.thrown = Null THEN "fulfilled" ELSE "rejected",
                    !.reason = s.thrown]
        /\ toGuest' = ForwardToGuest(s.invoked)

\* public async postMessage(message), from its entry to its first suspension
\* or to its end
postMessage(message, env) ==
    LET t == TryBlock(message, env)
        run == [Quiet("postMessage") EXCEPT
                    !.message = message, !.env = env,
                    !.handler = t.handler, !.callbackCalls = t.callbackCalls]
    IN  /\ CASE t.exit = "return" ->
                    /\ last' = [run EXCEPT !.outcome = "fulfilled"]
                    /\ UNCHANGED <<awaiting, toGuest>>
              [] t.exit = "await" ->
                    /\ awaiting' = awaiting \cup
                            {[message |-> message, env |-> env, handler |-> t.handler]}
                    /\ last' = [run EXCEPT !.outcome = "pending"]
                    /\ UNCHANGED toGuest
              [] t.exit = "catch" ->
                    /\ Reply(run, Null, t.error)
                    /\ UNCHANGED awaiting
        /\ UNCHANGED <<responders_, callbacks_>>

\* The messages posted to the service by callers other than the webview bridge.
DirectMessages(id) ==
    {Message("ext1", "cs1", viewId, from, to, id, "content") :
        viewId \in PostedViewIds, from \in Participants, to \in Participants}

\* The collaborator answers that matter to a message (the others are fixed).
EnvironmentsFor(message) ==
    {env \in Environments :
        /\ (message.from = MessageParticipant.ContentScript /\ message.to = MessageParticipant.Plugin)
                \/ env.owner = NoEnvironment.owner
        /\ (message.from = MessageParticipant.UserWebview /\ message.to = MessageParticipant.Plugin)
                \/ env.resolves = NoEnvironment.resolves
        /\ (message.from = MessageParticipant.Plugin /\ message.to = MessageParticipant.UserWebview)
                \/ env.cbThrows = NoEnvironment.cbThrows}

\* A caller posts a message with a fresh id.
PostMessage ==
    /\ nextId <= MaxMessages
    /\ \E message \in DirectMessages(nextId) : \E env \in EnvironmentsFor(message) :
            postMessage(message, env)
    /\ nextId' = nextId + 1
    /\ UNCHANGED <<webviewApiPromises_, toHost, issuedWith, installed, mounted>>

\* The catch block assigning what it caught to response as well.
Settled_keepsResponse(result) ==
    [response |-> result,
     error |-> IF result.t = "error" THEN result ELSE Null]

\* response = await ...  /  catch (e) { error = e }: the response and the error
\* postMessage holds once the awaited handler has settled with result
Settled(result) ==
    [response |-> IF result.t = "error" THEN Null ELSE result,
     error |-> IF result.t = "error" THEN result ELSE Null]

\* The awaited handler settles and postMessage runs to its end.
HandlerSettles ==
    \E call \in awaiting :
    \E result \in HandlerResults(call.message.id) \cup HandlerErrors(call.message.id) :
        /\ awaiting' = awaiting \ {call}
        /\ Reply([Quiet("resume") EXCEPT
                    !.message = call.message, !.env = call.env,
                    !.issued = Get(issuedWith, call.message.id),
                    !.handler = call.handler, !.settled = result],
                 Settled(result).response, Settled(result).error)
        /\ issuedWith' = Delete(issuedWith, call.message.id)
        /\ UNCHANGED <<responders_, callbacks_, webviewApiPromises_, toHost, nextId, installed,
                       mounted>>

\* registerResponder keeping the function a key already has.
registerResponder_keepsExisting(type, viewId, fn) ==
    /\ responders_' = IF JoinKey(type, viewId) \in DOMAIN responders_
                         THEN responders_
                         ELSE Put(responders_, JoinKey(type, viewId), fn)
    /\ UNCHANGED callbacks_

\* public registerResponder(type, viewId, responder)
registerResponder(type, viewId, fn) ==
    /\ responders_' = Put(responders_, JoinKey(type, viewId), fn)
    /\ UNCHANGED callbacks_

\* registerCallback keeping the function a key already has.
registerCallback_keepsExisting(type, viewId, fn) ==
    /\ callbacks_' = IF JoinKey(type, viewId) \in DOMAIN callbacks_
                         THEN callbacks_
                         ELSE Put(callbacks_, JoinKey(type, viewId), fn)
    /\ UNCHANGED responders_

\* public registerCallback(type, viewId, responder)
registerCallback(type, viewId, fn) ==
    /\ callbacks_' = Put(callbacks_, JoinKey(type, viewId), fn)
    /\ UNCHANGED responders_

\* unregisterResponder leaving the slot as it is.
unregisterResponder_keepsSlot(type, viewId) ==
    UNCHANGED <<responders_, callbacks_>>

\* public unregisterResponder(type, viewId)
unregisterResponder(type, viewId) ==
    /\ responders_' = Delete(responders_, JoinKey(type, viewId))
    /\ UNCHANGED callbacks_

RegisterResponder ==
    /\ \E type \in SurfaceTypes, viewId \in ViewIds : \E fn \in FunctionsFor(viewId) :
            /\ registerResponder(type, viewId, fn)
            /\ installed' = Put(installed, <<type, viewId>>, fn)
            /\ last' = Registry("registerResponder", type, viewId, fn, responder(type, viewId))
    /\ UNCHANGED <<awaiting, webviewApiPromises_, toHost, toGuest, nextId, issuedWith, mounted>>

\* Callbacks are registered for webviews, as by the one caller of registerCallback;
\* callback reads no other key.
RegisterCallback ==
    /\ \E viewId \in ViewIds : \E fn \in FunctionsFor(viewId) :
            /\ registerCallback(ResponderComponentType.UserWebview, viewId, fn)
            /\ last' = Registry("registerCallback", ResponderComponentType.UserWebview, viewId, fn,
                                Get(callbacks_, JoinKey(ResponderComponentType.UserWebview, viewId)))
    /\ UNCHANGED <<awaiting, webviewApiPromises_, toHost, toGuest, nextId, issuedWith, installed,
                   mounted>>

UnregisterResponder ==
    /\ \E type \in SurfaceTypes, viewId \in ViewIds :
            /\ unregisterResponder(type, viewId)
            /\ installed' = Delete(installed, <<type, viewId>>)
            /\ last' = Registry("unregisterResponder", type, viewId, Undefined,
                                responder(type, viewId))
    /\ UNCHANGED <<awaiting, webviewApiPromises_, toHost, toGuest, nextId, issuedWith, mounted>>

----------------------------------------------------------------------------
\* useWebviewToPluginMessages (the hook of a mounted webview)

\* The first effect of a hook instance mounting for viewId:
\* registerResponder(ResponderComponentType.UserWebview, viewId, ...). The instance
\* is named by the function fn it registers; its listener is added with it.
HookMount ==
    /\ \E viewId \in PostedViewIds : \E fn \in Functions \ mounted[viewId] :
            /\ registerResponder(ResponderComponentType.UserWebview, viewId, fn)
            /\ installed' = Put(installed, <<ResponderComponentType.UserWebview, viewId>>, fn)
            /\ mounted' = [mounted EXCEPT ![viewId] = @ \cup {fn}]
            /\ last' = Registry("registerResponder", ResponderComponentType.UserWebview, viewId,
                                fn, responder(ResponderComponentType.UserWebview, viewId))
    /\ UNCHANGED <<awaiting, webviewApiPromises_, toHost, toGuest, nextId, issuedWith>>

\* The cleanup of a mounted instance:
\* unregisterResponder(ResponderComponentType.UserWebview, viewId)
HookUnmount ==
    /\ \E viewId \in PostedViewIds : \E fn \in mounted[viewId] :
            /\ unregisterResponder(ResponderComponentType.UserWebview, viewId)
            /\ installed' = Delete(installed, <<ResponderComponentType.UserWebview, viewId>>)
            /\ mounted' = [mounted EXCEPT ![viewId] = @ \ {fn}]
            /\ last' = Registry("unregisterResponder", ResponderComponentType.UserWebview, viewId,
                                Undefined, responder(ResponderComponentType.UserWebview, viewId))
            /\ issuedWith' =
                    [id \in DOMAIN issuedWith |->
                        IF \E call \in awaiting :
                                call.message.id = id /\ call.message.viewId = viewId
                            THEN [issuedWith[id] EXCEPT !.unregistered = TRUE]
                            ELSE issuedWith[id]]
    /\ UNCHANGED <<awaiting, webviewApiPromises_, toHost, toGuest, nextId>>

\* { pluginId, viewId, ...event.data.message }
Spread(pluginId, viewId, message) ==
    LET base == [pluginId |-> pluginId, contentScriptId |-> "", viewId |-> viewId]
    IN  [k \in (DOMAIN base) \cup (DOMAIN message) |->
            IF k \in DOMAIN message THEN message[k] ELSE base[k]]

\* function onMessage_(event) of the hook instance fn mounted for viewId, on
\* event.data = data (target "" stands for no data, or data without a target)
onMessage_(viewId, fn, data) ==
    IF data.target = ""
    THEN /\ last' = Quiet("onMessage_")
         /\ UNCHANGED <<responders_, callbacks_, awaiting, toGuest>>
    ELSE IF data.target = "postMessageService.registerCallback"
    THEN /\ registerCallback(ResponderComponentType.UserWebview, viewId, fn)
         /\ last' = Registry("onMessage_", ResponderComponentType.UserWebview, viewId, fn,
                             Get(callbacks_, JoinKey(ResponderComponentType.UserWebview, viewId)))
         /\ UNCHANGED <<awaiting, toGuest>>
    ELSE IF data.target = "postMessageService.message"
    THEN LET message == Spread("ext1", viewId, data.message)
         IN  \E env \in EnvironmentsFor(message) : postMessage(message, env)
    ELSE /\ last' = Quiet("onMessage_")
         /\ UNCHANGED <<responders_, callbacks_, awaiting, toGuest>>

\* The window message posted by the guest reaches the listener of a mounted
\* instance; with no instance mounted there is no listener and it is lost.
OnMessage ==
    \E viewId \in ViewIds :
        /\ toHost[viewId] # <<>>
        /\ IF mounted[viewId] = {}
            THEN /\ last' = Quiet("message")
                 /\ UNCHANGED <<responders_, callbacks_, awaiting, toGuest>>
            ELSE \E fn \in mounted[viewId] : onMessage_(viewId, fn, Head(toHost[viewId]))
        /\ toHost' = [toHost EXCEPT ![viewId] = Tail(@)]
        /\ issuedWith' =
                IF \E call \in awaiting' \ awaiting : TRUE
                    THEN Put(issuedWith, Head(toHost[viewId]).message.id,
                             [fn |-> Get(installed, <<ResponderComponentType.UserWebview, viewId>>),
                              unregistered |-> FALSE])
                    ELSE issuedWith
        /\ UNCHANGED <<webviewApiPromises_, nextId, installed, mounted>>

----------------------------------------------------------------------------
\* UserWebviewIndex.js (the guest side of a webview)

\* new Promise((resolve, reject) => ...): by is the responseId of the reply that
\* settled it (0 while pending)
PendingPromise == [t |-> "promise", state |-> "pending", value |-> Null, by |-> 0]

\* promise.resolve(value) / promise.reject(value): a settled promise stays as it is
Settle(promise, state, value, by) ==
    IF promise.state = "pending"
        THEN [t |-> "promise", state |-> state, value |-> value, by |-> by]
        ELSE promise

\* webviewApi.postMessage generating a second id for the request it emits.
webviewApiPostMessage_secondId(viewId, content) ==
    LET messageId == nextId
    IN  /\ webviewApiPromises_' =
                [webviewApiPromises_ EXCEPT ![viewId] = Put(@, messageId, PendingPromise)]
        /\ toHost' = [toHost EXCEPT ![viewId] = Append(@,
                [target |-> "postMessageService.message",
                 message |-> [from |-> "userWebview", to |-> "plugin",
                              id |-> messageId + 1, content |-> content]])]
        /\ nextId' = nextId + 2

\* webviewApi.postMessage(message) in the webview viewId
webviewApiPostMessage(viewId, content) ==
    LET messageId == nextId
    IN  /\ webviewApiPromises_' =
                [webviewApiPromises_ EXCEPT ![viewId] = Put(@, messageId, PendingPromise)]
        /\ toHost' = [toHost EXCEPT ![viewId] = Append(@,
                [target |-> "postMessageService.message",
                 message |-> [from |-> "userWebview", to |-> "plugin",
                              id |-> messageId, content |-> content]])]
        /\ nextId' = nextId + 1

WebviewApiPostMessage ==
    /\ nextId <= MaxCalls
    /\ \E viewId \in PostedViewIds : webviewApiPostMessage(viewId, "content")
    /\ last' = Quiet("webviewApi.postMessage")
    /\ UNCHANGED <<responders_, callbacks_, awaiting, toGuest, issuedWith, installed, mounted>>

\* What a script of the webview can post to its window besides a bridge call: the
\* request for the push channel, an event without a target, an event for another
\* listener ({ target: 'UserWebview', message: 'ready' }), and requests that did
\* not go through webviewApi.postMessage (so that no promise is stored for their
\* id): one of the shape the bridge emits, one that names a view itself.
GuestEnvelopes(id) ==
    {[target |-> "postMessageService.registerCallback", message |-> Null],
     [target |-> "", message |-> Null],
     [target |-> "UserWebview", message |-> Null],
     [target |-> "postMessageService.message",
      message |-> [from |-> "userWebview", to |-> "plugin", id |-> id, content |-> "raw"]],
     [target |-> "postMessageService.message",
      message |-> [viewId |-> "v2", from |-> "userWebview", to |-> "plugin", id |-> id,
                   content |-> "raw"]]}

\* window.postMessage(data) by a script of the webview viewId
WindowPostMessage ==
    /\ nextId <= MaxCalls
    /\ \E viewId \in PostedViewIds : \E data \in GuestEnvelopes(nextId) :
            toHost' = [toHost EXCEPT ![viewId] = Append(@, data)]
    /\ nextId' = nextId + 1
    /\ last' = Quiet("window.postMessage")
    /\ UNCHANGED <<responders_, callbacks_, awaiting, webviewApiPromises_, toGuest, issuedWith,
                   installed, mounted>>

\* The ids of the promises of the webview viewId that are still pending.
PendingIds(viewId) ==
    {id \in DOMAIN webviewApiPromises_[viewId] :
        webviewApiPromises_[viewId][id].state = "pending"}

\* The reply handler settling the oldest pending promise, whatever the responseId.
ipcResponse_oldestPending(viewId, message) ==
    IF PendingIds(viewId) = {}
    THEN /\ last' = [Quiet("postMessageService.response") EXCEPT !.warn = TRUE]
         /\ UNCHANGED webviewApiPromises_
    ELSE LET oldest == CHOOSE id \in PendingIds(viewId) : \A other \in PendingIds(viewId) : id <= other
             promise == webviewApiPromises_[viewId][oldest]
         IN  /\ last' = Quiet("postMessageService.response")
             /\ webviewApiPromises_' = [webviewApiPromises_ EXCEPT
                    ![viewId][oldest] =
                        IF ~Falsy(message.error)
                            THEN Settle(promise, "rejected", message.error, message.responseId)
                            ELSE Settle(promise, "resolved", message.response, message.responseId)]

\* The reply handler without the check of the promise it looked up.
ipcResponse_noGuard(viewId, message) ==
    LET promise == Get(webviewApiPromises_[viewId], message.responseId)
    IN  IF Falsy(promise)
        THEN /\ last' = [Quiet("postMessageService.response") EXCEPT
                            !.outcome = "rejected", !.reason = Err("TypeError")]
             /\ UNCHANGED webviewApiPromises_
        ELSE /\ last' = Quiet("postMessageService.response")
             /\ webviewApiPromises_' = [webviewApiPromises_ EXCEPT
                    ![viewId][message.responseId] =
                        IF ~Falsy(message.error)
                            THEN Settle(promise, "rejected", message.error, message.responseId)
                            ELSE Settle(promise, "resolved", message.response, message.responseId)]

\* The reply handler resolving only: a reply with an error settles nothing.
ipcResponse_ignoresErrors(viewId, message) ==
    LET promise == Get(webviewApiPromises_[viewId], message.responseId)
    IN  IF Falsy(promise)
        THEN /\ last' = [Quiet("postMessageService.response") EXCEPT !.warn = TRUE]
             /\ UNCHANGED webviewApiPromises_
        ELSE /\ last' = Quiet("postMessageService.response")
             /\ webviewApiPromises_' = [webviewApiPromises_ EXCEPT
                    ![viewId][message.responseId] =
                        IF ~Falsy(message.error)
                            THEN promise
                            ELSE Settle(promise, "resolved", message.response, message.responseId)]

\* ipc['postMessageService.response'](event) in the webview viewId, event.message = message
ipcResponse(viewId, message) ==
    LET promise == Get(webviewApiPromises_[viewId], message.responseId)
    IN  IF Falsy(promise)
        THEN /\ last' = [Quiet("postMessageService.response") EXCEPT !.warn = TRUE]
             /\ UNCHANGED webviewApiPromises_
        ELSE /\ last' = Quiet("postMessageService.response")
             /\ webviewApiPromises_' = [webviewApiPromises_ EXCEPT
                    ![viewId][message.responseId] =
                        IF ~Falsy(message.error)
                            THEN Settle(promise, "rejected", message.error, message.responseId)
                            ELSE Settle(promise, "resolved", message.response, message.responseId)]

\* The reply posted by the host's responder reaches the guest's listener.
IpcResponse ==
    \E viewId \in ViewIds :
        /\ toGuest[viewId] # <<>>
        /\ ipcResponse(viewId, Head(toGuest[viewId]))
        /\ toGuest' = [toGuest EXCEPT ![viewId] = Tail(@)]
        /\ UNCHANGED <<responders_, callbacks_, awaiting, toHost, nextId, issuedWith, installed,
                       mounted>>

----------------------------------------------------------------------------

Init ==
    /\ responders_ = <<>>
    /\ callbacks_ = <<>>
    /\ awaiting = {}
    /\ webviewApiPromises_ = [v \in ViewIds |-> <<>>]
    /\ toHost = [v \in ViewIds |-> <<>>]
    /\ toGuest = [v \in ViewIds |-> <<>>]
    /\ nextId = 1
    /\ issuedWith = <<>>
    /\ installed = <<>>
    /\ mounted = [v \in ViewIds |-> {}]
    /\ last = Quiet("init")

\* The service with its callers: any message, any registration.
Next ==
    \/ PostMessage
    \/ HandlerSettles
    \/ RegisterResponder
    \/ RegisterCallback
    \/ UnregisterResponder

Spec == Init /\ [][Next]_vars

\* The webviews: bridge calls forwarded by the hook, replies returned to the bridge.
NextWebview ==
    \/ HookMount
    \/ HookUnmount
    \/ WebviewApiPostMessage
    \/ OnMessage
    \/ HandlerSettles
    \/ IpcResponse

SpecWebview == Init /\ [][NextWebview]_vars

\* webviewApi.postMessage, for the calls followed to their end.
RoundTripCall ==
    /\ nextId <= MaxRoundTrips
    /\ WebviewApiPostMessage

NextRoundTrip ==
    \/ HookMount
    \/ HookUnmount
    \/ RoundTripCall
    \/ OnMessage
    \/ HandlerSettles
    \/ IpcResponse

\* The webviews under the scheduling of the event loop: a window message and a
\* reply event that were posted are dispatched. A handler need not settle.
SpecWebviewFair ==
    Init /\ [][NextRoundTrip]_vars /\ WF_vars(OnMessage) /\ WF_vars(IpcResponse)

\* The webviews with scripts that also post to their window themselves.
NextGuest ==
    \/ NextWebview
    \/ WindowPostMessage

SpecGuest == Init /\ [][NextGuest]_vars

----------------------------------------------------------------------------
\* Properties. They read last, the record of the most recent operation, so an
\* invariant over last speaks of every operation of every behaviour.

ContentScriptToPlugin(m) ==
    m.from = MessageParticipant.ContentScript /\ m.to = MessageParticipant.Plugin

UserWebviewToPlugin(m) ==
    m.from = MessageParticipant.UserWebview /\ m.to = MessageParticipant.Plugin

PluginToUserWebview(m) ==
    m.from = MessageParticipant.Plugin /\ m.to = MessageParticipant.UserWebview

RequestResponse(m) == ContentScriptToPlugin(m) \/ UserWebviewToPlugin(m)

Unsupported(m) == ~RequestResponse(m) /\ ~PluginToUserWebview(m)

\* The last operation was a run of postMessage: from its entry, or from its await.
RouterRan == last.op \in {"postMessage", "resume"}

IsSet(x) == ~Falsy(x)

\* The surface a sender's reply goes to.
SenderType(m) ==
    IF m.from = MessageParticipant.ContentScript
        THEN ResponderComponentType.NoteTextViewer
        ELSE ResponderComponentType.UserWebview

SenderSlot(m) == <<SenderType(m), m.viewId>>

SenderHasResponder(m) ==
    /\ m.from \in {MessageParticipant.ContentScript, MessageParticipant.UserWebview}
    /\ SenderSlot(m) \in DOMAIN installed

\* The one responder invocation that hands reply to the sender's responder.
ToSenderResponder(m, reply) ==
    <<[key |-> JoinKey(SenderType(m), m.viewId), fn |-> installed[SenderSlot(m)],
       reply |-> reply]>>

\* C1: when sendResponse runs for a message whose sender has no registered
\* responder, the reply is logged and dropped: no responder is invoked and the
\* postMessage call completes normally.
C1_ReplyWithoutResponderIsDropped ==
    (/\ RouterRan
     /\ last.sent # <<>>
     /\ last.message.from \in {MessageParticipant.ContentScript, MessageParticipant.UserWebview}
     /\ ~SenderHasResponder(last.message))
        => (last.warn /\ last.responderCalls = <<>> /\ last.outcome = "fulfilled")

\* C2: when the handler of a ContentScript->Plugin or UserWebview->Plugin message
\* completes with result r and the sender's responder is registered, exactly one
\* responder is invoked: the one registered for (NoteTextViewer, viewId) resp.
\* (UserWebview, viewId), with {responseId = message.id, response = r, error = null}.
C2_SuccessReplyToSenderResponder ==
    (/\ last.op = "resume"
     /\ last.settled \in HandlerResults(last.message.id)
     /\ SenderHasResponder(last.message))
        => last.responderCalls =
                ToSenderResponder(last.message,
                    MessageResponse(last.message.id, last.settled, Null))

C2_Witness ==
    /\ last.op = "resume"
    /\ ContentScriptToPlugin(last.message)
    /\ last.settled = Val(last.message.id)
    /\ Len(last.responderCalls) = 1
    /\ last.responderCalls[1].fn = Fn("f1")
    /\ Get(installed, <<ResponderComponentType.UserWebview, last.message.viewId>>) = Fn("f2")

\* C3 as claimed: in every reply handed to a responder exactly one of response
\* and error is set.
C3_ExactlyOneOfResponseAndError ==
    \A i \in 1..Len(last.responderCalls) :
        IsSet(last.responderCalls[i].reply.response) # IsSet(last.responderCalls[i].reply.error)

\* C3 as amended: in every reply handed to a responder, response and error are
\* never both set, and they are both unset exactly when the handler completed
\* with a null result.
C3_NeverBothSet ==
    \A i \in 1..Len(last.responderCalls) :
        LET reply == last.responderCalls[i].reply
        IN  /\ ~(IsSet(reply.response) /\ IsSet(reply.error))
            /\ (~IsSet(reply.response) /\ ~IsSet(reply.error))
                    <=> (last.op = "resume" /\ last.settled = Null)

C3_Witness ==
    /\ last.op = "resume"
    /\ last.settled = Null
    /\ Len(last.responderCalls) = 1
    /\ ~IsSet(last.responderCalls[1].reply.response)
    /\ ~IsSet(last.responderCalls[1].reply.error)

\* The failure of the last run was passed to sendResponse as the error of a reply
\* for the message's id, is not what postMessage failed with, and reached the
\* sender's responder when one is registered.
FailureForwarded ==
    /\ Len(last.sent) = 1
    /\ last.sent[1].responseId = last.message.id
    /\ last.sent[1].response = Null
    /\ last.sent[1].error.t = "error"
    /\ last.reason # last.sent[1].error
    /\ SenderHasResponder(last.message)
            => /\ last.outcome = "fulfilled"
               /\ last.responderCalls = ToSenderResponder(last.message, last.sent[1])

\* C4: for the two request/response pairings a resolution failure or a handler
\* failure is passed to sendResponse as the error of a reply with responseId =
\* message.id, the content-script handler is not invoked when the content script
\* has no owner, and the failure is never what postMessage itself fails with
\* (without a responder for the sender postMessage fails in sendResponse, with the
\* TypeError of calling an undefined responder, after the failure was passed on).
C4_FailuresForwardedAsError ==
    /\ (last.op = "postMessage" /\ ContentScriptToPlugin(last.message) /\ last.env.owner = "")
            => (last.handler = "none" /\ last.outcome # "pending" /\ FailureForwarded)
    /\ (last.op = "postMessage" /\ UserWebviewToPlugin(last.message) /\ ~last.env.resolves)
            => (last.handler = "none" /\ last.outcome # "pending" /\ FailureForwarded)
    /\ (last.op = "resume" /\ last.settled \in HandlerErrors(last.message.id))
            => (FailureForwarded /\ last.sent[1].error = last.settled)
    /\ \A call \in awaiting :
            /\ ContentScriptToPlugin(call.message) => call.env.owner # ""
            /\ UserWebviewToPlugin(call.message) => call.env.resolves

C4_Witness ==
    /\ last.op = "postMessage"
    /\ ContentScriptToPlugin(last.message)
    /\ last.env.owner = ""
    /\ Len(last.responderCalls) = 1
    /\ last.responderCalls[1].reply.error.t = "error"

\* C5 as claimed (its consequence): a post with an unsupported pairing fails and
\* invokes no responder.
C5_RoutingErrorFailsThePost ==
    (last.op = "postMessage" /\ Unsupported(last.message))
        => (last.outcome = "rejected" /\ last.responderCalls = <<>>)

\* C5 as amended: the error of an unsupported pairing is caught and passed to
\* sendResponse as the error of a reply with responseId = message.id; it is never
\* what postMessage fails with; a ContentScript or UserWebview sender with a
\* registered responder gets that reply and the call completes normally; no
\* handler and no callback is invoked, and no other responder.
C5_RoutingErrorWrappedIntoReply ==
    /\ (last.op = "postMessage" /\ Unsupported(last.message))
            => /\ last.handler = "none"
               /\ last.callbackCalls = <<>>
               /\ last.outcome # "pending"
               /\ last.sent = <<MessageResponse(last.message.id, Null, Err("Unhandled message"))>>
               /\ last.reason # Err("Unhandled message")
               /\ SenderHasResponder(last.message)
                    => /\ last.outcome = "fulfilled"
                       /\ last.responderCalls = ToSenderResponder(last.message, last.sent[1])
               /\ ~SenderHasResponder(last.message) => last.responderCalls = <<>>
    /\ \A call \in awaiting : RequestResponse(call.message)

C5_Witness ==
    /\ last.op = "postMessage"
    /\ Unsupported(last.message)
    /\ last.message.from = MessageParticipant.ContentScript
    /\ last.outcome = "fulfilled"
    /\ Len(last.responderCalls) = 1
    /\ last.responderCalls[1].reply.error = Err("Unhandled message")

\* The replies of the webview viewId on their way to the guest, then in its promises.
InFlightTo(viewId) == {toGuest[viewId][i].responseId : i \in 1..Len(toGuest[viewId])}

\* C6: a reply is handed to the responder when its own handler completes, whatever
\* calls issued earlier are still awaited (never before, and not held back), and a
\* promise of the bridge is settled only by the reply carrying its own id, with
\* its own call's outcome.
C6_CompletionOrderAndOwnId ==
    /\ \A call \in awaiting : \A v \in ViewIds :
            /\ call.message.id \notin InFlightTo(v)
            /\ call.message.id \in DOMAIN webviewApiPromises_[v]
                    => webviewApiPromises_[v][call.message.id].state = "pending"
    /\ (last.op = "resume" /\ SenderHasResponder(last.message))
            => LET q == toGuest[last.message.viewId]
               IN  /\ Len(q) > 0
                   /\ q[Len(q)].responseId = last.message.id
                   /\ last.settled \in HandlerResults(last.message.id)
                        => (q[Len(q)].response = last.settled /\ q[Len(q)].error = Null)
                   /\ last.settled \in HandlerErrors(last.message.id)
                        => (q[Len(q)].response = Null /\ q[Len(q)].error = last.settled)
    /\ \A v \in ViewIds : \A id \in DOMAIN webviewApiPromises_[v] :
            LET promise == webviewApiPromises_[v][id]
            IN  promise.state # "pending"
                    => /\ promise.by = id
                       /\ promise.state = "resolved" => promise.value \in HandlerResults(id)
                       /\ promise.state = "rejected"
                            => promise.value \in HandlerErrors(id) \cup {Err("Could not resolve view")}

C6_Witness ==
    \E call \in awaiting : \E id \in DOMAIN webviewApiPromises_[call.message.viewId] :
        /\ call.message.id < id
        /\ call.message.id \in DOMAIN webviewApiPromises_[call.message.viewId]
        /\ webviewApiPromises_[call.message.viewId][id].state = "resolved"
        /\ webviewApiPromises_[call.message.viewId][id].value = Val(id)

\* C7: a Plugin->UserWebview push posted while a callback is registered for
\* (UserWebview, viewId) invokes that callback and no other, once, before
\* postMessage suspends, with {responseId = message.id, response = the message,
\* error = null}; no extension handler is invoked.
C7_PushInvokesItsCallback ==
    /\ (/\ last.op = "postMessage"
        /\ PluginToUserWebview(last.message)
        /\ JoinKey(ResponderComponentType.UserWebview, last.message.viewId) \in DOMAIN callbacks_)
            => /\ last.callbackCalls =
                    <<[key |-> JoinKey(ResponderComponentType.UserWebview, last.message.viewId),
                       fn |-> callbacks_[JoinKey(ResponderComponentType.UserWebview,
                                                 last.message.viewId)],
                       reply |-> MessageResponse(last.message.id, Obj(last.message), Null)]>>
               /\ last.handler = "none"
               /\ last.outcome # "pending"
    /\ \A call \in awaiting : ~PluginToUserWebview(call.message)
    /\ last.op = "resume" => last.callbackCalls = <<>>

C7_Witness ==
    /\ last.op = "postMessage"
    /\ PluginToUserWebview(last.message)
    /\ Len(last.callbackCalls) = 1
    /\ last.callbackCalls[1].fn = Fn("f1")
    /\ last.outcome = "fulfilled"
    /\ Get(callbacks_, JoinKey(ResponderComponentType.UserWebview, "v2")) = Fn("f2")

C9_PushNeverUsesResponders ==
    (RouterRan /\ PluginToUserWebview(last.message)) => last.responderCalls = <<>>

C9_Witness ==
    /\ last.op = "postMessage"
    /\ PluginToUserWebview(last.message)
    /\ last.env.cbThrows
    /\ Len(last.callbackCalls) = 1
    /\ last.sent # <<>>
    /\ <<ResponderComponentType.UserWebview, last.message.viewId>> \in DOMAIN installed
    /\ <<ResponderComponentType.NoteTextViewer, last.message.viewId>> \in DOMAIN installed
    /\ last.responderCalls = <<>>

\* C10: a reply goes to the function registered for the sender's key when the
\* reply is sent, and to no function registered there before: also when the key
\* was unregistered and registered again while the call was awaited.
C10_ReplyGoesToCurrentResponder ==
    RouterRan =>
        /\ \A i \in 1..Len(last.responderCalls) :
                /\ SenderHasResponder(last.message)
                /\ last.responderCalls[i].fn = installed[SenderSlot(last.message)]
                /\ last.responderCalls[i].key =
                        JoinKey(SenderType(last.message), last.message.viewId)
        /\ (last.sent # <<>> /\ SenderHasResponder(last.message))
                => Len(last.responderCalls) = 1

C10_Witness ==
    /\ last.op = "resume"
    /\ last.issued = [fn |-> Fn("f1"), unregistered |-> TRUE]
    /\ Len(last.responderCalls) = 1
    /\ last.responderCalls[1].fn = Fn("f2")

\* The registry a registry operation works on, before and after the step.
IsCallbackOp(op) == op \in {"registerCallback", "onMessage_"}

\* A registry operation leaves what the claim says in the slot of its key: the
\* function it was given, or nothing for an unregistration; and when the slot
\* already was that way, the registries are as before.
C11_Step ==
    last'.reg # Undefined =>
        LET r == last'.reg
            key == JoinKey(r.type, r.viewId)
            old == IF IsCallbackOp(last'.op) THEN callbacks_ ELSE responders_
            new == IF IsCallbackOp(last'.op) THEN callbacks_' ELSE responders_'
        IN  /\ r.before = Get(old, key)
            /\ r.fn # Undefined => (key \in DOMAIN new /\ new[key] = r.fn)
            /\ r.fn = Undefined => key \notin DOMAIN new
            /\ r.fn = r.before => (responders_' = responders_ /\ callbacks_' = callbacks_)
            /\ last'.outcome = "none" /\ last'.reason = Null

\* C11: registerResponder/registerCallback on an occupied key overwrite it (the
\* slot then holds the function just given, and re-registering the function it
\* holds changes nothing); unregisterResponder empties the slot and, on an empty
\* slot, changes nothing and raises nothing.
C11_LastWriterWins == [][C11_Step]_vars

C11_Witness ==
    /\ last.op = "registerCallback"
    /\ last.reg.before = Fn("f1")
    /\ last.reg.fn = Fn("f2")
    /\ callbacks_[JoinKey(last.reg.type, last.reg.viewId)] = Fn("f2")
    /\ Get(responders_, JoinKey(last.reg.type, last.reg.viewId)) = Fn("f1")

\* The ids of the calls suspended at their await.
AwaitedIds == {call.message.id : call \in awaiting}

\* C16: a postMessage invocation invokes its handler at most once and a responder
\* at most once: it replies either before suspending or when it resumes, it
\* leaves the awaited calls when it resumes, and a call that replied before
\* suspending never is among them; so no id is replied to twice.
C16_AtMostOnce ==
    /\ Len(last.sent) <= 1
    /\ Len(last.responderCalls) <= 1
    /\ \A i \in 1..Len(last.responderCalls) :
            last.responderCalls[i].reply.responseId = last.message.id
    /\ \A call \in awaiting : call.message.id < nextId /\ call.handler # "none"
    /\ \A a, b \in awaiting : a.message.id = b.message.id => a = b
    /\ last.op = "postMessage"
            => /\ (last.handler # "none") <=> (last.message.id \in AwaitedIds)
               /\ last.handler # "none" => (last.sent = <<>> /\ last.outcome = "pending")
    /\ last.op = "resume"
            => /\ last.message.id \notin AwaitedIds
               /\ last.handler # "none"
               /\ Len(last.sent) = 1

C16_Witness ==
    /\ last.op = "resume"
    /\ last.settled \in HandlerErrors(last.message.id)
    /\ Len(last.responderCalls) = 1
    /\ last.outcome = "fulfilled"
    /\ awaiting = {}

\* View ids that would collide if the key did not keep its two parts apart.
KeyViewIds == ViewIds \cup {"", ":", "v1:", ":v1", "userWebview:v1", "noteTextViewer:v1"}

\* Distinct (type, viewId) pairs have distinct composite keys.
KeysDistinct ==
    \A t1, t2 \in SurfaceTypes : \A v1, v2 \in KeyViewIds :
        JoinKey(t1, v1) = JoinKey(t2, v2) => (t1 = t2 /\ v1 = v2)

\* A step changes the slot of the key of its registry operation, in that
\* operation's registry, and nothing else of the registries.
C20_Step ==
    /\ last'.reg = Undefined => (responders_' = responders_ /\ callbacks_' = callbacks_)
    /\ last'.reg # Undefined =>
            LET key == JoinKey(last'.reg.type, last'.reg.viewId)
            IN  /\ \A k \in (DOMAIN responders_ \cup DOMAIN responders_') \ {key} :
                        Get(responders_', k) = Get(responders_, k)
                /\ \A k \in (DOMAIN callbacks_ \cup DOMAIN callbacks_') \ {key} :
                        Get(callbacks_', k) = Get(callbacks_, k)
                /\ IsCallbackOp(last'.op) => responders_' = responders_
                /\ ~IsCallbackOp(last'.op) => callbacks_' = callbacks_
    /\ KeysDistinct
    /\ \A type \in SurfaceTypes : \A viewId \in ViewIds :
            Get(responders_', JoinKey(type, viewId)) = Get(installed', <<type, viewId>>)

\* C20: a registry operation changes the slot of its key in its registry and
\* nothing else; the composite keys of distinct (type, viewId) pairs differ, so
\* that the responders read by key are those registered by pair; a step that is
\* no registry operation (postMessage, its resumption) changes neither registry.
C20_LocalEffect == [][C20_Step]_vars

C20_Witness ==
    /\ last.op = "registerResponder"
    /\ last.reg.type = ResponderComponentType.NoteTextViewer
    /\ last.reg.viewId = "v1"
    /\ last.reg.fn = Fn("f2")
    /\ responder(ResponderComponentType.UserWebview, "v1") = Fn("f1")
    /\ responder(ResponderComponentType.NoteTextViewer, "v2") = Fn("f2")
    /\ Get(callbacks_, JoinKey(ResponderComponentType.UserWebview, "v1")) = Fn("f1")

\* The key of the webview viewId in either registry.
WebviewKey(viewId) == JoinKey(ResponderComponentType.UserWebview, viewId)

\* C12: a registry slot of a webview exists only while an instance of it is
\* mounted: with none mounted, neither a responder nor a callback is registered
\* for (UserWebview, viewId).
C12_NoSlotWithoutMountedSurface ==
    \A viewId \in ViewIds :
        mounted[viewId] = {}
            => /\ WebviewKey(viewId) \notin DOMAIN responders_
               /\ WebviewKey(viewId) \notin DOMAIN callbacks_

\* C13: a reply matching a pending entry removes the entry when it settles the
\* promise: the table holds no entry whose promise is settled.
C13_SettledEntryIsRemoved ==
    \A viewId \in ViewIds : \A id \in DOMAIN webviewApiPromises_[viewId] :
        webviewApiPromises_[viewId][id].state = "pending"

\* The ids of the requests of the webview viewId on their way to the host.
RequestedBy(viewId) ==
    {toHost[viewId][i].message.id :
        i \in {j \in 1..Len(toHost[viewId]) :
                    toHost[viewId][j].target = "postMessageService.message"}}

\* A bridge call stores one pending promise under a fresh id and emits the
\* request carrying that id, in one step and doing nothing else; entries stay,
\* so that the requests and the replies under way have theirs.
C17_Step ==
    /\ last'.op = "webviewApi.postMessage" =>
            \E viewId \in ViewIds :
            \E id \in DOMAIN webviewApiPromises_'[viewId] \ DOMAIN webviewApiPromises_[viewId] :
                /\ DOMAIN webviewApiPromises_'[viewId] =
                        DOMAIN webviewApiPromises_[viewId] \cup {id}
                /\ webviewApiPromises_'[viewId][id].state = "pending"
                /\ \A other \in DOMAIN webviewApiPromises_[viewId] :
                        webviewApiPromises_'[viewId][other] = webviewApiPromises_[viewId][other]
                /\ \A v \in ViewIds \ {viewId} :
                        webviewApiPromises_'[v] = webviewApiPromises_[v]
                /\ id \notin AwaitedIds \cup InFlightTo(viewId) \cup RequestedBy(viewId)
                /\ toHost' = [toHost EXCEPT ![viewId] = Append(@,
                        [target |-> "postMessageService.message",
                         message |-> [from |-> "userWebview", to |-> "plugin",
                                      id |-> id, content |-> "content"]])]
                /\ UNCHANGED <<awaiting, toGuest, responders_, callbacks_>>
    /\ \A viewId \in ViewIds :
            /\ DOMAIN webviewApiPromises_[viewId] \subseteq DOMAIN webviewApiPromises_'[viewId]
            /\ RequestedBy(viewId)' \subseteq DOMAIN webviewApiPromises_'[viewId]
            /\ InFlightTo(viewId)' \subseteq DOMAIN webviewApiPromises_'[viewId]

\* C17: webviewApi.postMessage adds exactly one pending entry under a fresh id,
\* emits the request {from: userWebview, to: plugin, id, content} with that id in
\* the same step and returns the pending promise; whenever a request or a reply
\* for an id is under way, the entry of that id exists.
C17_EntryBeforeRequest == [][C17_Step]_vars

C17_Witness ==
    /\ last.op = "webviewApi.postMessage"
    /\ Len(toHost["v1"]) = 1
    /\ toHost["v1"][1].message.id \in DOMAIN webviewApiPromises_["v1"]
    /\ webviewApiPromises_["v1"][toHost["v1"][1].message.id].state = "pending"
    /\ \E id \in DOMAIN webviewApiPromises_["v1"] :
            webviewApiPromises_["v1"][id].state = "resolved"

\* C19: the responder slot of a webview never holds a function registered by an
\* instance that has unmounted: what it holds is the function of an instance
\* mounted now, in whatever order the instances of one view mount and unmount.
C19_SlotOfMountedInstance ==
    \A viewId \in ViewIds :
        WebviewKey(viewId) \in DOMAIN responders_
            => responders_[WebviewKey(viewId)] \in mounted[viewId]

C19_Witness ==
    /\ last.op = "unregisterResponder"
    /\ last.reg.before = Fn("f2")
    /\ mounted["v1"] = {Fn("f2")}
    /\ WebviewKey("v1") \notin DOMAIN responders_

\* The reply event at the head of the queue of viewId is handled in this step.
ReplyHandled(viewId) ==
    /\ toGuest[viewId] # <<>>
    /\ toGuest'[viewId] = Tail(toGuest[viewId])
    /\ last'.op = "postMessageService.response"

C14_Step ==
    \A viewId \in ViewIds :
        (/\ ReplyHandled(viewId)
         /\ Head(toGuest[viewId]).responseId \notin DOMAIN webviewApiPromises_[viewId])
            => /\ webviewApiPromises_' = webviewApiPromises_
               /\ last'.warn
               /\ last'.outcome = "none" /\ last'.reason = Null

\* C14: a reply whose responseId matches no entry of the table is logged and
\* ignored: the table and every promise in it stay as they are, and nothing is
\* raised.
C14_UnmatchedReplyIgnored == [][C14_Step]_vars

C14_Witness ==
    /\ last.op = "postMessageService.response"
    /\ last.warn
    /\ \E id \in DOMAIN webviewApiPromises_["v1"] :
            webviewApiPromises_["v1"][id].state = "pending"

\* The window message at the head of the queue of viewId reaches the listener of
\* a mounted instance in this step.
EventHandled(viewId) ==
    /\ toHost[viewId] # <<>>
    /\ toHost'[viewId] = Tail(toHost[viewId])
    /\ mounted[viewId] # {}

C18_Step ==
    \A viewId \in ViewIds :
        EventHandled(viewId) =>
            LET data == Head(toHost[viewId])
            IN  IF data.target = "postMessageService.message"
                THEN /\ last'.op = "postMessage"
                     /\ last'.message =
                            [pluginId |-> "ext1", contentScriptId |-> "", viewId |-> viewId,
                             from |-> data.message.from, to |-> data.message.to,
                             id |-> data.message.id, content |-> data.message.content]
                     /\ last'.reg = Undefined
                     /\ UNCHANGED <<responders_, callbacks_>>
                ELSE IF data.target = "postMessageService.registerCallback"
                THEN /\ last'.op = "onMessage_"
                     /\ WebviewKey(viewId) \in DOMAIN callbacks_'
                     /\ callbacks_'[WebviewKey(viewId)] \in mounted[viewId]
                     /\ \A k \in (DOMAIN callbacks_ \cup DOMAIN callbacks_') \ {WebviewKey(viewId)} :
                            Get(callbacks_', k) = Get(callbacks_, k)
                     /\ UNCHANGED <<responders_, awaiting, toGuest>>
                ELSE /\ last' = Quiet("onMessage_")
                     /\ UNCHANGED <<responders_, callbacks_, awaiting, toGuest>>

\* C18: the listener of a mounted webview passes a window message with target
\* 'postMessageService.message' to postMessage, as the guest's message with the
\* pluginId and the viewId of the surface; on target
\* 'postMessageService.registerCallback' it registers a callback of the surface
\* for (UserWebview, viewId) and posts nothing; on any other target, or none, it
\* registers nothing and posts nothing.
C18_ListenerDispatch == [][C18_Step]_vars

\* The promise of the bridge call id of the webview viewId is in state with value.
PromiseIs(viewId, id, state, value) ==
    /\ id \in DOMAIN webviewApiPromises_[viewId]
    /\ webviewApiPromises_[viewId][id].state = state
    /\ webviewApiPromises_[viewId][id].value = value

\* The handler of the call id settled with result and the reply went to a responder.
SettledWith(id, result) ==
    /\ last.op = "resume"
    /\ last.message.id = id
    /\ last.settled = result
    /\ Len(last.responderCalls) = 1

\* C15: once the handler of a bridge call has settled with a responder registered
\* for its webview, the call's promise is eventually settled the same way:
\* resolved with the handler's result, rejected with its error; and as long as
\* the handler has not settled, the promise is pending.
C15_HandlerOutcomeReachesPromise ==
    /\ \A id \in 1..MaxRoundTrips : \A viewId \in PostedViewIds :
            /\ \A result \in HandlerResults(id) :
                    (SettledWith(id, result) /\ last.message.viewId = viewId)
                        ~> PromiseIs(viewId, id, "resolved", result)
            /\ \A result \in HandlerErrors(id) :
                    (SettledWith(id, result) /\ last.message.viewId = viewId)
                        ~> PromiseIs(viewId, id, "rejected", result)
    /\ [](\A call \in awaiting :
            PromiseIs(call.message.viewId, call.message.id, "pending", Null))

C15_Witness ==
    \E id \in DOMAIN webviewApiPromises_["v1"] :
        /\ webviewApiPromises_["v1"][id].state = "rejected"
        /\ webviewApiPromises_["v1"][id].value \in HandlerErrors(id)
        /\ last.op = "postMessageService.response"

====
